---- MODULE Spec2Model ----
(***************************************************************************)
(* A model of the regex engine: Parser::parse (parser.rs) builds a         *)
(* PatternSection tree with two stacks, PatternSection::to_transition      *)
(* (types.rs) lowers it to a Transition table, and Engine::is_match        *)
(* (engine.rs) searches the table with an explicit work stack.             *)
(*                                                                         *)
(* Characters are one-character strings.  Option<T> is a sequence of       *)
(* length at most one: None is <<>>, Some(x) is <<x>>.                     *)
(***************************************************************************)
EXTENDS Integers, Sequences, FiniteSets, TLC

\* ------------------------------------------------------------------ bounds

\* longest input string handed to is_match
MaxInputLen == 4
\* longest literal / wildcard pattern
MaxLitLen == 3
\* largest bound written inside a {m,n} range
MaxRange == 2
\* longest member list of a character class
MaxClassLen == 2

\* longest input string of the second caller of a shared Engine
MaxSecondLen == 2

\* most pieces in a pattern of grouping characters
MaxParenPieces == 4

\* most pieces in a pattern of classes and ranges
MaxSyntaxPieces == 3

\* most entries of is_match's work stack the model follows a call to
MaxWork == 12

\* most children of a node in the trees patterns are written from
MaxChildren == 3

\* most terms in a concatenation of quantified terms
MaxTerms == 3

\* ------------------------------------------------------------- characters

None == <<>>
Some(x) == <<x>>

Letters == {"a", "b", "c", "z"}
Digits == {"0", "1", "2", "3", "4", "5", "6", "7", "8", "9"}

\* char::is_ascii_alphanumeric, restricted to the characters of the model
is_ascii_alphanumeric(c) == c \in Letters \cup Digits

DigitString == <<"0", "1", "2", "3", "4", "5", "6", "7", "8", "9">>

\* char::to_digit(10) of a decimal digit
DigitValue(c) == (CHOOSE n \in 1..10 : DigitString[n] = c) - 1

\* ---------------------------------------------------------------- helpers

Last(s) == IF s = <<>> THEN None ELSE Some(s[Len(s)])
Front(s) == SubSeq(s, 1, Len(s) - 1)
Range(s) == {s[i] : i \in 1..Len(s)}
Contains(s, c) == \E i \in 1..Len(s) : s[i] = c

\* all sequences over S of length 0..n
RECURSIVE SeqsUpTo(_, _)
SeqsUpTo(S, n) ==
  IF n = 0 THEN {<<>>}
  ELSE LET shorter == SeqsUpTo(S, n - 1)
       IN shorter \cup {Append(s, c) : s \in {t \in shorter : Len(t) = n - 1}, c \in S}

\* ------------------------------------------------------------------ types

\* enum Mod
ModOne == [k |-> "One", min |-> 0, max |-> 0]
ModZeroOrOne == [k |-> "ZeroOrOne", min |-> 0, max |-> 0]
ModOneOrMore == [k |-> "OneOrMore", min |-> 0, max |-> 0]
ModAny == [k |-> "Any", min |-> 0, max |-> 0]
ModRange(min, max) == [k |-> "Range", min |-> min, max |-> max]

\* Mod::from
ModFrom(c) ==
  CASE c = "?" -> Some(ModZeroOrOne)
    [] c = "+" -> Some(ModOneOrMore)
    [] c = "*" -> Some(ModAny)
    [] OTHER -> None

\* enum PatternSection; every variant is a record of one shape:
\* And/Or use list, Char uses chars = <<c>>, CharGroup uses chars and neg
PAnd(list, m) == [t |-> "And", list |-> list, chars |-> <<>>, neg |-> FALSE, m |-> m]
POr(list, m) == [t |-> "Or", list |-> list, chars |-> <<>>, neg |-> FALSE, m |-> m]
PChar(c, m) == [t |-> "Char", list |-> <<>>, chars |-> <<c>>, neg |-> FALSE, m |-> m]
PCharGroup(cs, m, neg) == [t |-> "CharGroup", list |-> <<>>, chars |-> cs, neg |-> neg, m |-> m]

\* ----------------------------------------------------------------- parser

\* Parser::pop_same: pops the run of equal operators on top of ops
RECURSIVE PopRun(_, _, _)
PopRun(ops, top, count) ==
  IF Last(ops) # Some(top) THEN [ops |-> ops, count |-> count]
  ELSE PopRun(Front(ops), top, count + 1)

pop_same(ops) ==
  IF Last(ops) = None THEN [op |-> None, count |-> 0, ops |-> ops]
  ELSE LET r == PopRun(ops, ops[Len(ops)], 0)
       IN [op |-> Some(ops[Len(ops)]), count |-> r.count, ops |-> r.ops]

\* the three closures handed to collapse_stacks
\* the '|' closure written as the closure of the end of the input is
until_or_AsEnd(op) == op = None
until_or(op) == op # Some("And")
\* the ')' closure written as the closure of the end of the input is
until_paren_AsEnd(op) == op = None
until_paren(op) == op = Some("Paren")
until_end(op) == op = None

until(mode, op) ==
  CASE mode = "or" -> until_or(op)
    [] mode = "paren" -> until_paren(op)
    [] mode = "end" -> until_end(op)

\* collapse_stacks dropping an open Paren it meets instead of failing on it
RECURSIVE collapse_stacks_DropParen(_, _, _)
collapse_stacks_DropParen(stack, ops, mode) ==
  IF until(mode, Last(ops)) THEN [stack |-> stack, ops |-> ops, ok |-> TRUE]
  ELSE LET p == pop_same(ops)
       IN IF p.op = None THEN [stack |-> stack, ops |-> ops, ok |-> TRUE]
          ELSE IF p.op = Some("Paren") THEN collapse_stacks_DropParen(stack, p.ops, mode)
          ELSE IF Len(stack) < p.count + 1
          THEN [stack |-> stack, ops |-> p.ops, ok |-> FALSE]
          ELSE LET cut == Len(stack) - p.count - 1
                   tail == SubSeq(stack, cut + 1, Len(stack))
                   collapsed == IF p.op = Some("And") THEN PAnd(tail, ModOne)
                                ELSE POr(tail, ModOne)
               IN collapse_stacks_DropParen(Append(SubSeq(stack, 1, cut), collapsed), p.ops, mode)

\* Parser::collapse_stacks; ok = FALSE when the drain range is out of the
\* stack or a Paren is collapsed (unreachable!)
RECURSIVE collapse_stacks(_, _, _)
collapse_stacks(stack, ops, mode) ==
  IF until(mode, Last(ops)) THEN [stack |-> stack, ops |-> ops, ok |-> TRUE]
  ELSE LET p == pop_same(ops)
       IN IF p.op = None THEN [stack |-> stack, ops |-> ops, ok |-> TRUE]
          ELSE IF Len(stack) < p.count + 1 \/ p.op = Some("Paren")
          THEN [stack |-> stack, ops |-> p.ops, ok |-> FALSE]
          ELSE LET cut == Len(stack) - p.count - 1
                   tail == SubSeq(stack, cut + 1, Len(stack))
                   collapsed == IF p.op = Some("And") THEN PAnd(tail, ModOne)
                                ELSE POr(tail, ModOne)
               IN collapse_stacks(Append(SubSeq(stack, 1, cut), collapsed), p.ops, mode)

\* an inject_mod that writes the modifier to the bottom of the value stack
inject_mod_Bottom(stack, m) ==
  IF stack = <<>> THEN [stack |-> stack, ok |-> FALSE]
  ELSE [stack |-> <<[stack[1] EXCEPT !.m = m]>> \o Tail(stack), ok |-> TRUE]

\* Parser::inject_mod: replaces the modifier of the top of the value stack
inject_mod(stack, m) ==
  IF stack = <<>> THEN [stack |-> stack, ok |-> FALSE]
  ELSE [stack |-> Append(Front(stack), [stack[Len(stack)] EXCEPT !.m = m]), ok |-> TRUE]

\* first index >= from with raw[index] = c, or 0
RECURSIVE FindFrom(_, _, _)
FindFrom(raw, from, cs) ==
  IF from > Len(raw) THEN 0
  ELSE IF raw[from] \in cs THEN from
  ELSE FindFrom(raw, from + 1, cs)

\* usize::from_str_radix(s, 10): None for an empty string, a lone sign or a
\* non-digit; one leading '+' is accepted
RECURSIVE DecimalValue(_, _)
DecimalValue(s, acc) ==
  IF s = <<>> THEN acc ELSE DecimalValue(Tail(s), acc * 10 + DigitValue(Head(s)))

\* a conversion that reads the empty string as 0
from_str_radix_EmptyIsZero(s) ==
  LET body == IF s # <<>> /\ Head(s) = "+" THEN Tail(s) ELSE s
  IN IF \E i \in 1..Len(body) : body[i] \notin Digits
     THEN None
     ELSE Some(DecimalValue(body, 0))

from_str_radix(s) ==
  LET body == IF s # <<>> /\ Head(s) = "+" THEN Tail(s) ELSE s
  IN IF body = <<>> \/ \E i \in 1..Len(body) : body[i] \notin Digits
     THEN None
     ELSE Some(DecimalValue(body, 0))

\* the parser's local variables
ParserState(stack, ops, need_and, idx, pos, ok) ==
  [stack |-> stack, ops |-> ops, need_and |-> need_and, idx |-> idx, pos |-> pos, ok |-> ok]

Panic(p) == [p EXCEPT !.ok = FALSE]

\* a completed literal or class: push it, push And when a term precedes it
PushTerm(p, term, pos) ==
  ParserState(Append(p.stack, term),
              IF p.need_and THEN Append(p.ops, "And") ELSE p.ops,
              TRUE, p.idx + 1, pos, TRUE)

\* the '[' branch: raw[at] = "["
ParseCharGroup(raw, p, at) ==
  IF at + 1 > Len(raw) THEN Panic(p)
  ELSE LET is_negated == raw[at + 1] = "^"
           first == IF is_negated THEN at + 2 ELSE at + 1
           close == FindFrom(raw, first, {"]"})
       IN IF close = 0 THEN Panic(p)
          ELSE PushTerm(p, PCharGroup(SubSeq(raw, first, close - 1), ModOne, is_negated), close)

\* the '{' branch: raw[at] = "{"
ParseRange(raw, p, at) ==
  LET stop == FindFrom(raw, at + 1, {",", "}"})
  IN IF stop = 0 THEN Panic(p)
     ELSE LET min_is_max == raw[stop] = "}"
              min == from_str_radix(SubSeq(raw, at + 1, stop - 1))
          IN IF min = None THEN Panic(p)
             ELSE LET close == IF min_is_max THEN stop ELSE FindFrom(raw, stop + 1, {"}"})
                  IN IF close = 0 THEN Panic(p)
                     ELSE LET max == IF min_is_max THEN min
                                     ELSE from_str_radix(SubSeq(raw, stop + 1, close - 1))
                          IN IF max = None THEN Panic(p)
                             ELSE LET r == inject_mod(p.stack, ModRange(min[1], max[1]))
                                  IN ParserState(r.stack, p.ops, p.need_and, p.idx + 1, close, r.ok)

\* one iteration of the while loop of Parser::parse, on the character after
\* the p.pos characters the iterator has handed out
ParseIter(raw, p) ==
  LET at == p.pos + 1
      c == raw[at]
  IN IF ModFrom(c) # None
     THEN LET r == inject_mod(p.stack, ModFrom(c)[1])
          IN ParserState(r.stack, p.ops, p.need_and, p.idx + 1, at, r.ok)
     ELSE IF c = "|"
     THEN LET r == collapse_stacks(p.stack, p.ops, "or")
          IN ParserState(r.stack, Append(r.ops, "Or"), FALSE, p.idx + 1, at, r.ok)
     ELSE IF c = "("
     THEN ParserState(p.stack,
                      Append(IF p.need_and THEN Append(p.ops, "And") ELSE p.ops, "Paren"),
                      FALSE, p.idx + 1, at, TRUE)
     ELSE IF c = ")"
     THEN LET r == collapse_stacks(p.stack, p.ops, "paren")
          IN IF ~r.ok \/ Last(r.ops) # Some("Paren") THEN Panic(p)
             ELSE ParserState(r.stack, Front(r.ops),
                              IF p.idx < Len(raw) - 1 THEN TRUE ELSE p.need_and,
                              p.idx + 1, at, TRUE)
     ELSE IF c = "[" THEN ParseCharGroup(raw, p, at)
     ELSE IF c = "{" THEN ParseRange(raw, p, at)
     ELSE IF is_ascii_alphanumeric(c) \/ c = "."
     THEN PushTerm(p, PChar(c, ModOne), at)
     ELSE Panic(p)

\* the end of Parser::parse asserting exactly one value, as main.rs does
ParseFinishOneValue(p) ==
  LET r == collapse_stacks(p.stack, p.ops, "end")
  IN IF ~r.ok \/ r.ops # <<>> \/ Len(r.stack) # 1
     THEN [ok |-> FALSE, pattern |-> PAnd(<<>>, ModOne)]
     ELSE [ok |-> TRUE, pattern |-> r.stack[1]]

\* the end of Parser::parse: the last collapse, the two assertions and the
\* result, an empty And when the value stack is empty
ParseFinish(p) ==
  LET r == collapse_stacks(p.stack, p.ops, "end")
  IN IF ~r.ok \/ r.ops # <<>> \/ Len(r.stack) > 1
     THEN [ok |-> FALSE, pattern |-> PAnd(<<>>, ModOne)]
     ELSE [ok |-> TRUE,
           pattern |-> IF r.stack = <<>> THEN PAnd(<<>>, ModOne) ELSE r.stack[1]]

RECURSIVE ParseLoop(_, _)
ParseLoop(raw, p) ==
  IF ~p.ok THEN [ok |-> FALSE, pattern |-> PAnd(<<>>, ModOne)]
  ELSE IF p.pos >= Len(raw) THEN ParseFinish(p)
  ELSE ParseLoop(raw, ParseIter(raw, p))

ParserStart == ParserState(<<>>, <<>>, FALSE, 0, 0, TRUE)

\* Parser::parse as a function of the pattern string
parse(raw) == ParseLoop(raw, ParserStart)

\* ------------------------------------------------------------- transition

\* Transition::new; base maps <<state, Option<char>>> to a list of states,
\* negated maps a state to a map from excluded-character lists to lists of states
TransitionNew == [base |-> [k \in {} |-> <<>>], negated |-> [k \in {} |-> <<>>]]

\* HashMap entry(k).or_insert(vec![]) followed by append
MapAppend(map, k, vs) ==
  [x \in DOMAIN map \cup {k} |->
     IF x = k THEN (IF k \in DOMAIN map THEN map[k] ELSE <<>>) \o vs ELSE map[x]]

MapMerge(map, other) ==
  [x \in DOMAIN map \cup DOMAIN other |->
     (IF x \in DOMAIN map THEN map[x] ELSE <<>>)
     \o (IF x \in DOMAIN other THEN other[x] ELSE <<>>)]

\* Transition::merge
merge(self, other) ==
  [base |-> MapMerge(self.base, other.base),
   negated |->
     [s \in DOMAIN self.negated \cup DOMAIN other.negated |->
        MapMerge(IF s \in DOMAIN self.negated THEN self.negated[s] ELSE [k \in {} |-> <<>>],
                 IF s \in DOMAIN other.negated THEN other.negated[s] ELSE [k \in {} |-> <<>>])]]

\* Transition::insert_base
insert_base(self, k, v) == [self EXCEPT !.base = MapAppend(self.base, k, <<v>>)]

\* Transition::insert_negated
insert_negated(self, state, not_chars, to) ==
  [self EXCEPT !.negated =
     [s \in DOMAIN self.negated \cup {state} |->
        IF s = state
        THEN MapAppend(IF state \in DOMAIN self.negated THEN self.negated[state]
                       ELSE [k \in {} |-> <<>>],
                       not_chars, <<to>>)
        ELSE self.negated[s]]]

\* TransitionAndEndState, with ok = FALSE when an assertion failed on the way
Lowered(trans, end, ok) == [trans |-> trans, end |-> end, ok |-> ok]

\* PatternSection::to_transition_char
to_transition_char(c, start, next) ==
  Lowered(insert_base(TransitionNew, <<start, Some(c)>>, next), next, TRUE)

\* PatternSection::to_transition_char_group
RECURSIVE InsertMembers(_, _, _, _)
InsertMembers(out, chars, start, next) ==
  IF chars = <<>> THEN out
  ELSE InsertMembers(insert_base(out, <<start, Some(Head(chars))>>, next),
                     Tail(chars), start, next)

to_transition_char_group(chars, is_negated, start, next) ==
  IF is_negated
  THEN Lowered(insert_negated(TransitionNew, start, chars, next), next, TRUE)
  ELSE Lowered(InsertMembers(TransitionNew, chars, start, next), next, TRUE)

\* the skip edges of Mod::Range, one per state of skip_list
RECURSIVE InsertSkips(_, _, _)
InsertSkips(out, skip_list, end) ==
  IF skip_list = <<>> THEN out
  ELSE InsertSkips(insert_base(out, <<Head(skip_list), None>>, end), Tail(skip_list), end)

RECURSIVE to_transition(_, _, _)
RECURSIVE to_transition_without_mod(_, _, _)
RECURSIVE AndLoop(_, _, _, _, _)
RECURSIVE OrLoop(_, _, _, _, _, _, _)
RECURSIVE RangeLoop(_, _, _, _, _, _)

\* the loop of to_transition_and handing a child the previous child's end as
\* its first new state
RECURSIVE AndLoop_ReusesEnd(_, _, _, _, _)
AndLoop_ReusesEnd(list, at, out, end, new_next) ==
  IF at > Len(list) THEN out
  ELSE LET r == to_transition(list[at], end, new_next)
       IN AndLoop_ReusesEnd(list, at + 1,
                            Lowered(merge(out.trans, r.trans), r.end, out.ok /\ r.ok),
                            r.end, r.end)

\* the loop of PatternSection::to_transition_and over list[at..]
AndLoop(list, at, out, end, new_next) ==
  IF at > Len(list) THEN out
  ELSE LET r == to_transition(list[at], end, new_next)
       IN AndLoop(list, at + 1,
                  Lowered(merge(out.trans, r.trans), r.end, out.ok /\ r.ok),
                  r.end, r.end + 1)

\* PatternSection::to_transition_and
to_transition_and(list, start, next) ==
  AndLoop(list, 1, Lowered(TransitionNew, start, TRUE), start, next)

\* the first loop of PatternSection::to_transition_or over list[at..]
OrLoop(list, at, start, out, ends, latest_end, new_next) ==
  IF at > Len(list) THEN [out |-> out, ends |-> ends, latest_end |-> latest_end]
  ELSE LET r == to_transition(list[at], start, new_next)
       IN OrLoop(list, at + 1, start,
                 Lowered(merge(out.trans, r.trans), r.end, out.ok /\ r.ok),
                 Append(ends, r.end), r.end, r.end + 1)

\* to_transition_or joining the branches at the last child's end, without the
\* extra join state
to_transition_or_NoJoinState(list, start, next) ==
  LET l == OrLoop(list, 1, start, Lowered(TransitionNew, start, TRUE), <<>>, start, next)
  IN Lowered(InsertSkips(l.out.trans, l.ends, l.latest_end), l.latest_end, l.out.ok)

\* PatternSection::to_transition_or
to_transition_or(list, start, next) ==
  LET l == OrLoop(list, 1, start, Lowered(TransitionNew, start, TRUE), <<>>, start, next)
  IN Lowered(InsertSkips(l.out.trans, l.ends, l.latest_end + 1), l.latest_end + 1, l.out.ok)

\* PatternSection::to_transition_without_mod
to_transition_without_mod(self, start, next) ==
  CASE self.t = "And" -> to_transition_and(self.list, start, next)
    [] self.t = "Or" -> to_transition_or(self.list, start, next)
    [] self.t = "Char" -> to_transition_char(self.chars[1], start, next)
    [] self.t = "CharGroup" -> to_transition_char_group(self.chars, self.neg, start, next)

\* SkipEligible with the comparison off by one
SkipEligibleStrict(i, min) == i > min

\* the test "if i >= *min" that makes the state before repetition i an exit
SkipEligible(i, min) == i >= min

\* the loop "for i in 1..*max" of the Mod::Range arm
RangeLoop(self, i, out, end, skip_list, ok) ==
  IF i >= self.m.max THEN [out |-> out, end |-> end, skip_list |-> skip_list, ok |-> ok]
  ELSE LET r == to_transition_without_mod(self, end, end + 1)
       IN RangeLoop(self, i + 1, merge(out, r.trans), r.end,
                    IF SkipEligible(i, self.m.min) THEN Append(skip_list, end) ELSE skip_list,
                    ok /\ r.ok)

\* ZeroOrOneArm with the edge turned round
ZeroOrOneArmBackwards(out, start, end) ==
  [out |-> insert_base(out, <<end, None>>, start), end |-> end]

\* the Mod::ZeroOrOne arm of to_transition
ZeroOrOneArm(out, start, end) == [out |-> insert_base(out, <<start, None>>, end), end |-> end]

\* OneOrMoreArm with the edge turned round
OneOrMoreArmForwards(out, start, end) ==
  [out |-> insert_base(out, <<start, None>>, end), end |-> end]

\* the Mod::OneOrMore arm of to_transition
OneOrMoreArm(out, start, end) == [out |-> insert_base(out, <<end, None>>, start), end |-> end]

\* AnyArm without the loop-back edge
AnyArmNoLoop(out, start, end) ==
  [out |-> insert_base(out, <<start, None>>, end + 1), end |-> end + 1]

\* AnyArm without the extra exit state: the skip edge goes to end
AnyArm_NoExitState(out, start, end) ==
  [out |-> insert_base(insert_base(out, <<end, None>>, start), <<start, None>>, end),
   end |-> end]

\* the Mod::Any arm of to_transition
AnyArm(out, start, end) ==
  [out |-> insert_base(insert_base(out, <<end, None>>, start), <<start, None>>, end + 1),
   end |-> end + 1]

\* the Mod::Range arm of to_transition
RangeArm(self, out, start, end, ok) ==
  IF self.m.max < 1 THEN Lowered(out, end, FALSE)
  ELSE LET l == RangeLoop(self, 1, out, end,
                          IF self.m.min = 0 THEN <<start>> ELSE <<>>, ok)
       IN Lowered(InsertSkips(l.out, l.skip_list, l.end), l.end, l.ok)

\* PatternSection::to_transition
to_transition(self, start, next) ==
  LET u == to_transition_without_mod(self, start, next)
      out == merge(TransitionNew, u.trans)
      end == u.end
  IN CASE self.m.k = "One" -> Lowered(out, end, u.ok)
       [] self.m.k = "ZeroOrOne" ->
            LET a == ZeroOrOneArm(out, start, end) IN Lowered(a.out, a.end, u.ok)
       [] self.m.k = "OneOrMore" ->
            LET a == OneOrMoreArm(out, start, end) IN Lowered(a.out, a.end, u.ok)
       [] self.m.k = "Any" ->
            LET a == AnyArm(out, start, end) IN Lowered(a.out, a.end, u.ok)
       [] self.m.k = "Range" -> RangeArm(self, out, start, end, u.ok)

\* ---------------------------------------------------------------- matcher

\* every order in which a HashMap may hand out the keys of set S
RECURSIVE Orders(_)
Orders(S) ==
  IF S = {} THEN {<<>>}
  ELSE UNION {{<<x>> \o o : o \in Orders(S \ {x})} : x \in S}

Get(map, k) == IF k \in DOMAIN map THEN map[k] ELSE <<>>

Pairs(states, i) == [n \in 1..Len(states) |-> <<states[n], i>>]

\* NegatedAdmits looking at the first excluded character only
NegatedAdmitsFirstOnly(not_chars, c) == not_chars = <<>> \/ not_chars[1] # c

\* the test "!not_chars.contains(c)" of a negated edge
NegatedAdmits(not_chars, c) == ~Contains(not_chars, c)

\* the loop over the negated submap of a state, its keys taken in order
RECURSIVE NegatedLoop(_, _, _, _)
NegatedLoop(submap, order, c, i) ==
  IF order = <<>> THEN <<>>
  ELSE (IF NegatedAdmits(Head(order), c) THEN Pairs(submap[Head(order)], i + 1) ELSE <<>>)
       \o NegatedLoop(submap, Tail(order), c, i)

\* states_from without the lookup of the wildcard key
states_from_NoWildcard(self, state, c, i, order) ==
  (IF c # None
   THEN Pairs(Get(self.base, <<state, Some(c[1])>>), i + 1)
        \o (IF state \in DOMAIN self.negated
            THEN NegatedLoop(self.negated[state], order, c[1], i)
            ELSE <<>>)
   ELSE <<>>)
  \o Pairs(Get(self.base, <<state, None>>), i)

\* states_from without the epsilon successors
states_from_NoEpsilon(self, state, c, i, order) ==
  IF c # None
  THEN Pairs(Get(self.base, <<state, Some(c[1])>>), i + 1)
       \o Pairs(Get(self.base, <<state, Some(".")>>), i + 1)
       \o (IF state \in DOMAIN self.negated
           THEN NegatedLoop(self.negated[state], order, c[1], i)
           ELSE <<>>)
  ELSE <<>>

\* Transition::states_from; c is chars.get(i), order the iteration order of
\* the negated submap of state
states_from(self, state, c, i, order) ==
  (IF c # None
   THEN Pairs(Get(self.base, <<state, Some(c[1])>>), i + 1)
        \o Pairs(Get(self.base, <<state, Some(".")>>), i + 1)
        \o (IF state \in DOMAIN self.negated
            THEN NegatedLoop(self.negated[state], order, c[1], i)
            ELSE <<>>)
   ELSE <<>>)
  \o Pairs(Get(self.base, <<state, None>>), i)

\* the keys of the negated submap of a state
NegatedKeys(self, state) ==
  IF state \in DOMAIN self.negated THEN DOMAIN self.negated[state] ELSE {}

\* Vec::get
VecGet(chars, i) == IF i < Len(chars) THEN Some(chars[i + 1]) ELSE None

\* IsMatchIter accepting in the finish state with input left over
IsMatchIterNoLengthCheck(transitions, finish_state, chars, stack, order) ==
  LET state == stack[Len(stack)][1]
      i == stack[Len(stack)][2]
  IN IF state = finish_state
     THEN [returns |-> TRUE, stack |-> Front(stack)]
     ELSE [returns |-> FALSE,
           stack |-> Front(stack)
                     \o states_from(transitions, state, VecGet(chars, i), i, order)]

\* the loop body without the pop: the entry read stays on the work stack
IsMatchIter_NoPop(transitions, finish_state, chars, stack, order) ==
  LET state == stack[Len(stack)][1]
      i == stack[Len(stack)][2]
  IN IF state = finish_state /\ i >= Len(chars)
     THEN [returns |-> TRUE, stack |-> Front(stack)]
     ELSE [returns |-> FALSE,
           stack |-> stack
                     \o states_from(transitions, state, VecGet(chars, i), i, order)]

\* one iteration of the while loop of Engine::is_match on a non-empty work
\* stack: the pop, the acceptance test and the push of the successors
IsMatchIter(transitions, finish_state, chars, stack, order) ==
  LET state == stack[Len(stack)][1]
      i == stack[Len(stack)][2]
  IN IF state = finish_state /\ i >= Len(chars)
     THEN [returns |-> TRUE, stack |-> Front(stack)]
     ELSE [returns |-> FALSE,
           stack |-> Front(stack)
                     \o states_from(transitions, state, VecGet(chars, i), i, order)]

\* the keys of the negated submap of the state on top of the work stack
TopNegatedKeys(transitions, stack) ==
  NegatedKeys(transitions, stack[Len(stack)][1])

\* the loop of Engine::is_match as a function of the work stack, the negated
\* submaps iterated in one fixed order
RECURSIVE is_match_loop(_, _, _, _)
is_match_loop(transitions, finish_state, chars, stack) ==
  IF stack = <<>> THEN FALSE
  ELSE LET r == IsMatchIter(transitions, finish_state, chars, stack,
                            CHOOSE o \in Orders(TopNegatedKeys(transitions, stack)) : TRUE)
       IN IF r.returns THEN TRUE
          ELSE is_match_loop(transitions, finish_state, chars, r.stack)

\* Engine::new
EngineNew(pattern_str) ==
  LET parsed == parse(pattern_str)
      lowered == to_transition(parsed.pattern, 0, 1)
  IN [ok |-> parsed.ok /\ lowered.ok,
      transitions |-> lowered.trans, finish_state |-> lowered.end]

\* Engine::new(pattern).is_match(s) for a pattern that Engine::new accepts
EngineIsMatch(pattern_str, s) ==
  LET e == EngineNew(pattern_str)
  IN e.ok /\ is_match_loop(e.transitions, e.finish_state, s, <<<<0, 0>>>>)

\* ------------------------------------------------------------------ main.rs

\* The command-line program of main.rs carries its own Mod, PatternSection,
\* Parser and Engine.  Its collapse_stacks, pop_same and inject_mod read as
\* the ones of parser.rs; its parser knows the three one-character
\* modifiers, '|', '(', ')' and letters; its transition table maps a key to
\* one state.

is_ascii_alphabetic(c) == c \in Letters

\* one iteration of the for loop of main.rs Parser::parse
main_ParseIter(raw, p) ==
  LET at == p.pos + 1
      c == raw[at]
  IN IF ModFrom(c) # None
     THEN LET r == inject_mod(p.stack, ModFrom(c)[1])
          IN ParserState(r.stack, p.ops, p.need_and, p.idx + 1, at, r.ok)
     ELSE IF c = "|"
     THEN LET r == collapse_stacks(p.stack, p.ops, "or")
          IN ParserState(r.stack, Append(r.ops, "Or"), FALSE, p.idx + 1, at, r.ok)
     ELSE IF c = "("
     THEN ParserState(p.stack,
                      Append(IF p.need_and THEN Append(p.ops, "And") ELSE p.ops, "Paren"),
                      FALSE, p.idx + 1, at, TRUE)
     ELSE IF c = ")"
     THEN LET r == collapse_stacks(p.stack, p.ops, "paren")
          IN IF ~r.ok \/ Last(r.ops) # Some("Paren") THEN Panic(p)
             ELSE ParserState(r.stack, Front(r.ops),
                              IF p.idx < Len(raw) - 1 THEN TRUE ELSE p.need_and,
                              p.idx + 1, at, TRUE)
     ELSE IF is_ascii_alphabetic(c)
     THEN PushTerm(p, PChar(c, ModOne), at)
     ELSE Panic(p)

\* the end of main.rs Parser::parse: the last collapse and the assertions
\* that ops is empty and the value stack holds exactly one value
main_ParseFinish(p) ==
  LET r == collapse_stacks(p.stack, p.ops, "end")
  IN IF ~r.ok \/ r.ops # <<>> \/ Len(r.stack) # 1
     THEN [ok |-> FALSE, pattern |-> PAnd(<<>>, ModOne)]
     ELSE [ok |-> TRUE, pattern |-> r.stack[1]]

RECURSIVE main_ParseLoop(_, _)
main_ParseLoop(raw, p) ==
  IF ~p.ok THEN [ok |-> FALSE, pattern |-> PAnd(<<>>, ModOne)]
  ELSE IF p.pos >= Len(raw) THEN main_ParseFinish(p)
  ELSE main_ParseLoop(raw, main_ParseIter(raw, p))

\* main.rs Parser::parse
main_parse(raw) == main_ParseLoop(raw, ParserStart)

\* HashMap::insert on a table with one state per key: a later insert replaces
\* the state the key had
main_insert(out, k, v) == [x \in DOMAIN out \cup {k} |-> IF x = k THEN v ELSE out[x]]

\* for (k, v) in states { out.insert(k, v) }
main_insert_all(out, states) ==
  [x \in DOMAIN out \cup DOMAIN states |-> IF x \in DOMAIN states THEN states[x] ELSE out[x]]

main_HashMapNew == [k \in {} |-> 0]

\* main.rs to_transition_char
main_to_transition_char(c, start, next) ==
  [trans |-> main_insert(main_HashMapNew, <<start, Some(c)>>, next), end |-> next]

RECURSIVE main_to_transition(_, _, _)

\* the loop of main.rs to_transition_and over list[at..]
RECURSIVE main_AndLoop(_, _, _, _, _)
main_AndLoop(list, at, out, end, new_next) ==
  IF at > Len(list) THEN [trans |-> out, end |-> end]
  ELSE LET r == main_to_transition(list[at], end, new_next)
       IN main_AndLoop(list, at + 1, main_insert_all(out, r.trans), r.end, r.end + 1)

\* main.rs to_transition_and
main_to_transition_and(list, start, next) ==
  main_AndLoop(list, 1, main_HashMapNew, start, next)

\* the first loop of main.rs to_transition_or over list[at..]
RECURSIVE main_OrLoop(_, _, _, _, _, _, _)
main_OrLoop(list, at, start, out, ends, latest_end, new_next) ==
  IF at > Len(list) THEN [out |-> out, ends |-> ends, latest_end |-> latest_end]
  ELSE LET r == main_to_transition(list[at], start, new_next)
       IN main_OrLoop(list, at + 1, start, main_insert_all(out, r.trans),
                      Append(ends, r.end), r.end, r.end + 1)

\* the second loop of main.rs to_transition_or over ends[at..]
RECURSIVE main_InsertEnds(_, _, _, _)
main_InsertEnds(out, ends, at, to) ==
  IF at > Len(ends) THEN out
  ELSE main_InsertEnds(main_insert(out, <<ends[at], None>>, to), ends, at + 1, to)

\* main.rs to_transition_or
main_to_transition_or(list, start, next) ==
  LET l == main_OrLoop(list, 1, start, main_HashMapNew, <<>>, start, next)
  IN [trans |-> main_InsertEnds(l.out, l.ends, 1, l.latest_end + 1),
      end |-> l.latest_end + 1]

\* main.rs to_transition_without_mod
main_to_transition_without_mod(self, start, next) ==
  CASE self.t = "And" -> main_to_transition_and(self.list, start, next)
    [] self.t = "Or" -> main_to_transition_or(self.list, start, next)
    [] self.t = "Char" -> main_to_transition_char(self.chars[1], start, next)

\* main.rs to_transition
main_to_transition(self, start, next) ==
  LET u == main_to_transition_without_mod(self, start, next)
      out == main_insert_all(main_HashMapNew, u.trans)
      end == u.end
  IN CASE self.m.k = "One" -> [trans |-> out, end |-> end]
       [] self.m.k = "ZeroOrOne" ->
            [trans |-> main_insert(out, <<start, None>>, end), end |-> end]
       [] self.m.k = "OneOrMore" ->
            [trans |-> main_insert(out, <<end, None>>, start), end |-> end]
       [] self.m.k = "Any" ->
            [trans |-> main_insert(main_insert(out, <<end, None>>, start),
                                   <<start, None>>, end + 1),
             end |-> end + 1]

\* main.rs Engine::new; ok = FALSE when the parser panics
main_EngineNew(pattern_str) ==
  LET p == main_parse(pattern_str)
  IN IF ~p.ok THEN [ok |-> FALSE, transitions |-> main_HashMapNew, finish_state |-> 0]
     ELSE LET l == main_to_transition(p.pattern, 0, 1)
          IN [ok |-> TRUE, transitions |-> l.trans, finish_state |-> l.end]

\* one iteration of the while loop of main.rs Engine::is_match on a
\* non-empty work stack: the pop, the character edge and the epsilon edge
main_IsMatchIter(transitions, finish_state, chars, stack) ==
  LET state == stack[Len(stack)][1]
      i == stack[Len(stack)][2]
      rest == Front(stack)
      by_char == IF i < Len(chars) /\ <<state, Some(chars[i + 1])>> \in DOMAIN transitions
                 THEN Some(transitions[<<state, Some(chars[i + 1])>>]) ELSE None
      by_none == IF <<state, None>> \in DOMAIN transitions
                 THEN Some(transitions[<<state, None>>]) ELSE None
      pushed == IF by_char = None THEN rest ELSE Append(rest, <<by_char[1], i + 1>>)
  IN IF by_char # None /\ by_char[1] = finish_state /\ i = Len(chars) - 1
     THEN [returns |-> TRUE, stack |-> rest]
     ELSE IF by_none # None /\ by_none[1] = finish_state /\ i >= Len(chars)
     THEN [returns |-> TRUE, stack |-> pushed]
     ELSE [returns |-> FALSE,
           stack |-> IF by_none = None THEN pushed ELSE Append(pushed, <<by_none[1], i>>)]

\* ------------------------------------------------------------------ state

VARIABLES
  pc,            \* "parse", "compile", "ready", "match", "returned", "cut" or "panic"
  raw,           \* the pattern string given to Engine::new
  pos,           \* characters raw_it has handed out
  idx,           \* Parser::parse: idx
  stack,         \* Parser::parse: stack
  ops,           \* Parser::parse: ops
  need_and,      \* Parser::parse: need_and
  pattern,       \* the parsed PatternSection
  transitions,   \* Engine.transitions
  finish_state,  \* Engine.finish_state
  chars,         \* Engine::is_match: chars, the input string
  work,          \* Engine::is_match: stack
  result,        \* what the last is_match call returned
  pc2,           \* a second caller of is_match on the same Engine: "idle", "match", "returned" or "cut"
  chars2,        \* the second caller's chars
  work2,         \* the second caller's stack
  result2,       \* what the second caller's last call returned
  cli            \* the process of main.rs run as PATTERN STRING: its args, its
                 \* Engine and the locals of its is_match

\* the locals of the second caller
second == <<pc2, chars2, work2, result2>>

vars == <<pc, raw, pos, idx, stack, ops, need_and, pattern, transitions,
          finish_state, chars, work, result, pc2, chars2, work2, result2, cli>>

\* the characters the compiled automaton tells apart
KeyChars(t) ==
  {k[2][1] : k \in {x \in DOMAIN t.base : x[2] # None}}
  \cup UNION {UNION {Range(nc) : nc \in DOMAIN t.negated[s]} : s \in DOMAIN t.negated}

\* a character no pattern of the model mentions
OtherChar == "z"

\* the input strings the callers try: over the characters the automaton tells
\* apart and one it does not
Inputs(t) == SeqsUpTo(KeyChars(t) \cup {OtherChar}, MaxInputLen)

\* the input strings of the second caller
Inputs2(t) == SeqsUpTo(KeyChars(t) \cup {OtherChar}, MaxSecondLen)

\* Engine::new has returned an Engine
Constructed == pc \in {"ready", "match", "returned"}

\* the process of main.rs: pc is "none" (no such process), "start", "ready",
\* "match", "returned", "cut" or "panic"
CliProcess(pc_, args) ==
  [pc |-> pc_, args |-> args, transitions |-> main_HashMapNew, finish_state |-> 0,
   stack |-> <<>>, result |-> FALSE]

\* the state when Engine::new(pattern_str) of the library is entered
StartCore(pattern_str) ==
  /\ pc = "parse"
  /\ raw = pattern_str
  /\ pos = 0
  /\ idx = 0
  /\ stack = <<>>
  /\ ops = <<>>
  /\ need_and = FALSE
  /\ pattern = PAnd(<<>>, ModOne)
  /\ transitions = TransitionNew
  /\ finish_state = 0
  /\ chars = <<>>
  /\ work = <<>>
  /\ result = FALSE
  /\ pc2 = "idle"
  /\ chars2 = <<>>
  /\ work2 = <<>>
  /\ result2 = FALSE

\* the state when Engine::new(pattern_str) is entered and no command-line
\* process runs
Start(pattern_str) == StartCore(pattern_str) /\ cli = CliProcess("none", <<>>)

\* ---------------------------------------------------------------- actions

\* one iteration of the while loop of Parser::parse
ParseStep ==
  /\ pc = "parse"
  /\ pos < Len(raw)
  /\ LET q == ParseIter(raw, ParserState(stack, ops, need_and, idx, pos, TRUE))
     IN IF q.ok
        THEN /\ stack' = q.stack
             /\ ops' = q.ops
             /\ need_and' = q.need_and
             /\ idx' = q.idx
             /\ pos' = q.pos
             /\ pc' = "parse"
        ELSE /\ pc' = "panic"
             /\ UNCHANGED <<stack, ops, need_and, idx, pos>>
  /\ UNCHANGED <<raw, pattern, transitions, finish_state, chars, work, result>>
  /\ UNCHANGED <<second, cli>>

\* the end of Parser::parse: the input is used up
ParseEnd ==
  /\ pc = "parse"
  /\ pos >= Len(raw)
  /\ LET r == ParseFinish(ParserState(stack, ops, need_and, idx, pos, TRUE))
     IN IF r.ok
        THEN /\ pattern' = r.pattern
             /\ pc' = "compile"
        ELSE /\ pc' = "panic"
             /\ UNCHANGED pattern
  /\ UNCHANGED <<raw, pos, idx, stack, ops, need_and, transitions, finish_state,
                 chars, work, result>>
  /\ UNCHANGED <<second, cli>>

\* Engine::new after the parse: pattern.to_transition(0, 1)
Compile ==
  /\ pc = "compile"
  /\ LET r == to_transition(pattern, 0, 1)
     IN IF r.ok
        THEN /\ transitions' = r.trans
             /\ finish_state' = r.end
             /\ pc' = "ready"
        ELSE /\ pc' = "panic"
             /\ UNCHANGED <<transitions, finish_state>>
  /\ UNCHANGED <<raw, pos, idx, stack, ops, need_and, pattern, chars, work, result>>
  /\ UNCHANGED <<second, cli>>

\* Engine::is_match is entered with input s
IsMatchCall ==
  /\ pc = "ready"
  /\ \E s \in Inputs(transitions) :
       /\ chars' = s
       /\ work' = <<<<0, 0>>>>
  /\ pc' = "match"
  /\ UNCHANGED <<raw, pos, idx, stack, ops, need_and, pattern, transitions,
                 finish_state, result>>
  /\ UNCHANGED <<second, cli>>

\* the loop iteration of an is_match that marks the state it pops as visited
\* by taking its epsilon edges out of the Engine's table
IsMatchStepMarking ==
  /\ pc = "match"
  /\ IF work = <<>>
     THEN /\ result' = FALSE
          /\ pc' = "returned"
          /\ UNCHANGED <<work, transitions>>
     ELSE \E order \in Orders(TopNegatedKeys(transitions, work)) :
            LET r == IsMatchIter(transitions, finish_state, chars, work, order)
                popped == <<work[Len(work)][1], None>>
            IN /\ work' = r.stack
               /\ transitions' =
                    [transitions EXCEPT
                       !.base = [k \in DOMAIN transitions.base \ {popped} |-> transitions.base[k]]]
               /\ IF r.returns
                  THEN result' = TRUE /\ pc' = "returned"
                  ELSE pc' = "match" /\ UNCHANGED result
  /\ UNCHANGED <<raw, pos, idx, stack, ops, need_and, pattern, finish_state, chars>>
  /\ UNCHANGED <<second, cli>>

\* one iteration of the while loop of Engine::is_match, or its end; a call
\* whose work stack outgrows MaxWork entries is followed no further ("cut")
IsMatchStep ==
  /\ pc = "match"
  /\ IF work = <<>>
     THEN /\ result' = FALSE
          /\ pc' = "returned"
          /\ UNCHANGED work
     ELSE \E order \in Orders(TopNegatedKeys(transitions, work)) :
            LET r == IsMatchIter(transitions, finish_state, chars, work, order)
            IN /\ work' = r.stack
               /\ IF r.returns
                  THEN result' = TRUE /\ pc' = "returned"
                  ELSE /\ pc' = IF Len(r.stack) > MaxWork THEN "cut" ELSE "match"
                       /\ UNCHANGED result
  /\ UNCHANGED <<raw, pos, idx, stack, ops, need_and, pattern, transitions,
                 finish_state, chars>>
  /\ UNCHANGED <<second, cli>>

\* is_match has returned: its locals are dropped and the Engine can be asked again
IsMatchReturn ==
  /\ pc = "returned"
  /\ pc' = "ready"
  /\ chars' = <<>>
  /\ work' = <<>>
  /\ result' = FALSE
  /\ UNCHANGED <<raw, pos, idx, stack, ops, need_and, pattern, transitions, finish_state>>
  /\ UNCHANGED <<second, cli>>

Next == ParseStep \/ ParseEnd \/ Compile \/ IsMatchCall \/ IsMatchStep \/ IsMatchReturn

\* a second caller enters Engine::is_match on the same Engine with input s
IsMatchCall2 ==
  /\ Constructed
  /\ pc2 = "idle"
  /\ \E s \in Inputs2(transitions) :
       /\ chars2' = s
       /\ work2' = <<<<0, 0>>>>
  /\ pc2' = "match"
  /\ UNCHANGED <<pc, raw, pos, idx, stack, ops, need_and, pattern, transitions,
                 finish_state, chars, work, result, result2, cli>>

\* one iteration of the while loop of the second caller's is_match, or its end
IsMatchStep2 ==
  /\ pc2 = "match"
  /\ IF work2 = <<>>
     THEN /\ result2' = FALSE
          /\ pc2' = "returned"
          /\ UNCHANGED work2
     ELSE \E order \in Orders(TopNegatedKeys(transitions, work2)) :
            LET r == IsMatchIter(transitions, finish_state, chars2, work2, order)
            IN /\ work2' = r.stack
               /\ IF r.returns
                  THEN result2' = TRUE /\ pc2' = "returned"
                  ELSE /\ pc2' = IF Len(r.stack) > MaxWork THEN "cut" ELSE "match"
                       /\ UNCHANGED result2
  /\ UNCHANGED <<pc, raw, pos, idx, stack, ops, need_and, pattern, transitions,
                 finish_state, chars, work, result, chars2, cli>>

\* the second caller's is_match has returned: its locals are dropped
IsMatchReturn2 ==
  /\ pc2 = "returned"
  /\ pc2' = "idle"
  /\ chars2' = <<>>
  /\ work2' = <<>>
  /\ result2' = FALSE
  /\ UNCHANGED <<pc, raw, pos, idx, stack, ops, need_and, pattern, transitions,
                 finish_state, chars, work, result, cli>>

\* two callers share one Engine; their loop iterations interleave
NextShared == Next \/ IsMatchCall2 \/ IsMatchStep2 \/ IsMatchReturn2

\* main of main.rs: Engine::new(args[1]); a panic of the parser ends the
\* process
MainEngineNew ==
  /\ cli.pc = "start"
  /\ LET e == main_EngineNew(cli.args[1])
     IN cli' = IF e.ok
               THEN [cli EXCEPT !.pc = "ready", !.transitions = e.transitions,
                                !.finish_state = e.finish_state]
               ELSE [cli EXCEPT !.pc = "panic"]
  /\ UNCHANGED <<pc, raw, pos, idx, stack, ops, need_and, pattern, transitions,
                 finish_state, chars, work, result>>
  /\ UNCHANGED second

\* main of main.rs with three args: eng.is_match(args[2]) is entered
MainIsMatchCall ==
  /\ cli.pc = "ready"
  /\ cli' = [cli EXCEPT !.pc = "match", !.stack = <<<<0, 0>>>>]
  /\ UNCHANGED <<pc, raw, pos, idx, stack, ops, need_and, pattern, transitions,
                 finish_state, chars, work, result>>
  /\ UNCHANGED second

\* one iteration of the while loop of main.rs Engine::is_match, or its end;
\* the boolean is what dbg! reports
MainIsMatchStep ==
  /\ cli.pc = "match"
  /\ IF cli.stack = <<>>
     THEN cli' = [cli EXCEPT !.pc = "returned", !.result = FALSE]
     ELSE LET r == main_IsMatchIter(cli.transitions, cli.finish_state, cli.args[2], cli.stack)
          IN cli' = IF r.returns
                    THEN [cli EXCEPT !.pc = "returned", !.result = TRUE, !.stack = r.stack]
                    ELSE [cli EXCEPT !.pc = IF Len(r.stack) > MaxWork THEN "cut" ELSE "match",
                                     !.stack = r.stack]
  /\ UNCHANGED <<pc, raw, pos, idx, stack, ops, need_and, pattern, transitions,
                 finish_state, chars, work, result>>
  /\ UNCHANGED second

\* the library's Engine and the command-line process, side by side
NextCli == Next \/ MainEngineNew \/ MainIsMatchCall \/ MainIsMatchStep

\* Engine::new alone: the parse and the lowering, no call of is_match
NextNew == ParseStep \/ ParseEnd \/ Compile

\* ------------------------------------------------------- pattern families

\* patterns of letters, digits and the wildcard
LitChars == {"a", "1", "."}
LitPatterns == SeqsUpTo(LitChars, MaxLitLen)

InitLit == \E r \in LitPatterns : Start(r)
SpecLit == InitLit /\ [][Next]_vars

\* the units a quantifier is written after: a literal, the wildcard, a class,
\* a negated class and parenthesised sequences of literals
QuantUnits ==
  {<<"a">>, <<".">>, <<"[", "a", "b", "]">>, <<"[", "^", "a", "]">>,
   <<"(", "a", ")">>, <<"(", "a", "b", ")">>, <<"(", "a", "a", ")">>}

RangeText(m, n) == <<"{", DigitString[m + 1], ",", DigitString[n + 1], "}">>
ExactText(m) == <<"{", DigitString[m + 1], "}">>

\* the pairs m, n of a well-formed range
RangeBounds == {mn \in (0..MaxRange) \X (1..MaxRange) : mn[1] <= mn[2]}

QuantSuffixes ==
  {<<"*">>, <<"+">>, <<"?">>}
  \cup {RangeText(mn[1], mn[2]) : mn \in RangeBounds}
  \cup {ExactText(m) : m \in 1..MaxRange}

QuantPatterns == {u \o q : u \in QuantUnits, q \in QuantSuffixes}

InitQuant == \E r \in QuantPatterns : Start(r)
SpecQuant == InitQuant /\ [][Next]_vars

\* character classes: the member lists, plain and negated, alone and between
\* two literals
ClassMembers == SeqsUpTo({"a", "."}, MaxClassLen)
PlainClass(ms) == <<"[">> \o ms \o <<"]">>
NegatedClass(ms) == <<"[", "^">> \o ms \o <<"]">>
Between(r) == <<"a">> \o r \o <<"a">>

ClassPatterns ==
  LET alone == {PlainClass(ms) : ms \in ClassMembers} \cup {NegatedClass(ms) : ms \in ClassMembers}
  IN alone \cup {Between(r) : r \in alone}

InitClass == \E r \in ClassPatterns : Start(r)
SpecClass == InitClass /\ [][Next]_vars

\* alternations of two and of three branches
AltBranches == {<<"a">>, <<"b">>, <<"a", "b">>, <<"a", "+">>, <<"a", "*">>}
Alt2(p1, p2) == p1 \o <<"|">> \o p2
Alt3(p1, p2, p3) == p1 \o <<"|">> \o p2 \o <<"|">> \o p3

AltPatterns ==
  {Alt2(p1, p2) : p1 \in AltBranches, p2 \in AltBranches}
  \cup {Alt3(p1, p2, p3) : p1 \in AltBranches, p2 \in AltBranches, p3 \in AltBranches}

InitAlt == \E r \in AltPatterns : Start(r)
SpecAlt == InitAlt /\ [][Next]_vars

\* concatenations of two and of three quantified terms
SeqTerms ==
  {<<"a">>, <<"a", "+">>, <<"a", "*">>, <<"a", "?">>, <<"b">>, <<"b", "+">>, <<"b", "*">>}
SeqTerms3 == {<<"a">>, <<"a", "+">>, <<"b", "+">>}

SeqPatterns ==
  {t1 \o t2 : t1 \in SeqTerms, t2 \in SeqTerms}
  \cup {t1 \o t2 \o t3 : t1 \in SeqTerms3, t2 \in SeqTerms3, t3 \in SeqTerms3}

InitSeq == \E r \in SeqPatterns : Start(r)
SpecSeq == InitSeq /\ [][Next]_vars

\* a sequence of literals with one contiguous, non-empty part in parentheses
GroupChars == {"a", "b"}
Wrap(r, i, j) ==
  SubSeq(r, 1, i - 1) \o <<"(">> \o SubSeq(r, i, j) \o <<")">> \o SubSeq(r, j + 1, Len(r))

GroupPatterns ==
  UNION {{Wrap(r, ij[1], ij[2]) : ij \in {x \in (1..Len(r)) \X (1..Len(r)) : x[1] <= x[2]}} :
         r \in SeqsUpTo(GroupChars, MaxLitLen)}

InitGroup == \E r \in GroupPatterns : Start(r)
SpecGroup == InitGroup /\ [][Next]_vars

\* groups of optional terms under a repeating quantifier, and two patterns
\* whose automaton has no cycle of epsilon edges
LoopPatterns ==
  {<<"(", "a", "*", "b", "*", ")", "*">>,
   <<"(", "a", "?", "b", "?", ")", "+">>,
   <<"(", "a", "*", "b", ")", "*">>,
   <<"a", "*", "b", "*">>}

InitLoop == \E r \in LoopPatterns : Start(r)

\* a call of is_match that has been entered keeps running its loop
SpecLoopFair == InitLoop /\ [][Next]_vars /\ WF_vars(IsMatchStep)

\* the patterns of the Engine two callers share
SharedPatterns ==
  {<<"a", "*">>, <<"a", "?", "a">>, <<"[", "^", "a", "]", "a">>, <<"a", "|", "a", "a">>}

InitShared == \E r \in SharedPatterns : Start(r)
SpecShared == InitShared /\ [][NextShared]_vars

\* the pattern text a list of pieces spells
RECURSIVE Concat(_)
Concat(ts) == IF ts = <<>> THEN <<>> ELSE Head(ts) \o Concat(Tail(ts))

PiecesUpTo(pieces, n) == {Concat(ts) : ts \in SeqsUpTo(pieces, n)}

\* a literal, the grouping and alternation characters, quantifiers and
\* classes that hold a parenthesis
ParenPieces ==
  {<<"a">>, <<"(">>, <<")">>, <<"|">>, <<"*">>, <<"{", "1", "}">>,
   <<"[", "(", "]">>, <<"[", ")", "]">>}
ParenPatterns == PiecesUpTo(ParenPieces, MaxParenPieces)

InitParen == \E r \in ParenPatterns : Start(r)
SpecParen == InitParen /\ [][NextNew]_vars

\* a literal, a character the parser has no branch for, classes, an open
\* class, and ranges: well-formed, inverted, zero, open, with an empty, a
\* signed and a non-numeric bound
SyntaxPieces ==
  {<<"a">>, <<"#">>, <<"[", "a", "]">>, <<"[", "#", "]">>, <<"[", "{", "]">>, <<"[">>,
   <<"{", "1", ",", "2", "}">>, <<"{", "2", ",", "1", "}">>, <<"{", "0", "}">>,
   <<"{", "1", "}">>, <<"{">>, <<"{", "}">>, <<"{", ",", "1", "}">>,
   <<"{", "1", ",", "}">>, <<"{", "+", "1", "}">>, <<"{", "a", "}">>}
SyntaxPatterns == PiecesUpTo(SyntaxPieces, MaxSyntaxPieces)

InitSyntax == \E r \in SyntaxPatterns : Start(r)
SpecSyntax == InitSyntax /\ [][NextNew]_vars

\* a group holding one quantified literal, with a quantifier after the group
InnerQuantifiers == {<<"?">>, <<"+">>, <<"*">>, <<"{", "2", "}">>}
GroupQuantPatterns ==
  {<<"(", "a">> \o q1 \o <<")">> \o q2 : q1 \in InnerQuantifiers, q2 \in InnerQuantifiers}

InitGroupQuant == \E r \in GroupQuantPatterns : Start(r)
SpecGroupQuant == InitGroupQuant /\ [][Next]_vars

\* trees without quantifiers: literals, pairs of literals, and nodes of up to
\* MaxChildren children that are literals or pairs
TreeLeaves == {PChar("a", ModOne), PChar("b", ModOne)}
TreePairs ==
  {PAnd(<<x, y>>, ModOne) : x \in TreeLeaves, y \in TreeLeaves}
  \cup {POr(<<x, y>>, ModOne) : x \in TreeLeaves, y \in TreeLeaves}
TreeLists == {l \in SeqsUpTo(TreeLeaves \cup TreePairs, MaxChildren) : Len(l) >= 2}
Trees ==
  TreeLeaves \cup {PAnd(l, ModOne) : l \in TreeLists} \cup {POr(l, ModOne) : l \in TreeLists}

\* the pattern text of a tree: the children of a Sequence side by side, the
\* children of an Alternation with '|' between them; a composite child is put
\* in parentheses, except a Sequence under an Alternation
RECURSIVE Show(_)
RECURSIVE ShowList(_, _)
Show(t) ==
  IF t.t = "Char" THEN t.chars ELSE ShowList(t, 1)

ShowList(t, n) ==
  LET child == t.list[n]
      bare == child.t = "Char" \/ (t.t = "Or" /\ child.t = "And")
      text == IF bare THEN Show(child) ELSE <<"(">> \o Show(child) \o <<")">>
  IN IF n = Len(t.list) THEN text
     ELSE text \o (IF t.t = "Or" THEN <<"|">> ELSE <<>>) \o ShowList(t, n + 1)

TreePatterns == {Show(t) : t \in Trees}

InitTree == \E r \in TreePatterns : Start(r)
SpecTree == InitTree /\ [][NextNew]_vars

\* concatenations of up to MaxTerms terms (a literal, a class, a group), each
\* with or without a quantifier suffix
SuffixUnits == {<<"a">>, <<"[", "a", "b", "]">>, <<"(", "a", "b", ")">>}
Suffixes == {<<>>, <<"?">>, <<"+">>, <<"*">>, <<"{", "2", "}">>}
SuffixedTerms == {u \o q : u \in SuffixUnits, q \in Suffixes}
SuffixPatterns == {r \in PiecesUpTo(SuffixedTerms, MaxTerms) : r # <<>>}

InitSuffix == \E r \in SuffixPatterns : Start(r)
SpecSuffix == InitSuffix /\ [][NextNew]_vars

\* quantified literals and groups, joined into sequences and alternations
\* of up to MaxTerms terms
LoweringUnits ==
  {<<"a">>, <<"a", "*">>, <<"a", "?">>, <<"a", "{", "0", ",", "2", "}">>,
   <<"(", "a", "|", "b", ")", "+">>, <<"(", "a", "b", ")", "*">>}
Joiners == {<<>>, <<"|">>}

RECURSIVE Joined(_)
Joined(n) ==
  IF n = 1 THEN LoweringUnits
  ELSE {r \o j \o u : r \in Joined(n - 1), j \in Joiners, u \in LoweringUnits}

LoweringPatterns == UNION {Joined(n) : n \in 1..MaxTerms}

InitLowering == \E r \in LoweringPatterns : Start(r)
SpecLowering == InitLowering /\ [][NextNew]_vars

\* the quantified units together with the groups under a repeating
\* quantifier: automata without and with a cycle of epsilon edges
TerminationPatterns == QuantPatterns \cup LoopPatterns

InitTermination == \E r \in TerminationPatterns : Start(r)

\* a call of is_match that has been entered keeps running its loop
SpecTerminationFair == InitTermination /\ [][Next]_vars /\ WF_vars(IsMatchStep)

\* alternations of two negated classes written differently, [^a] and [^aa],
\* which put two keys into the negated submap of state 0: alone, followed by
\* a literal, and with a group of optional terms under + behind one of them
OrderPatterns ==
  {<<"[", "^", "a", "]", "|", "[", "^", "a", "a", "]">>,
   <<"[", "^", "a", "]", "a", "|", "[", "^", "a", "a", "]">>,
   <<"[", "^", "a", "]", "|", "[", "^", "a", "a", "]", "(", "a", "?", "a", "?", ")", "+", "a">>}

InitOrder == \E r \in OrderPatterns : Start(r)

\* two calls of is_match on one Engine, each drawing the iteration order of
\* the negated submap on its own; a call that has been entered keeps running
SpecOrderFair ==
  InitOrder /\ [][NextShared]_vars /\ WF_vars(IsMatchStep) /\ WF_vars(IsMatchStep2)

\* patterns handed to both programs: the empty one, literals, a wildcard,
\* modifiers, a group, and alternations whose branches start with the same
\* character or not
CliPatterns ==
  {<<>>, <<"a">>, <<"a", "a">>, <<"a", ".">>, <<"a", "*">>, <<"a", "?", "a">>,
   <<"(", "a", ")", "+">>, <<"a", "|", "z">>, <<"a", "|", "a", "a">>}

\* the STRING argument of the command line
CliStrings == SeqsUpTo({"a", OtherChar}, MaxSecondLen)

InitCli ==
  \E r \in CliPatterns, s \in CliStrings :
    StartCore(r) /\ cli = CliProcess("start", <<r, s>>)

SpecCli == InitCli /\ [][NextCli]_vars

\* ----------------------------------------------------------------- claims

\* is_match has returned its answer for the input chars
Returned == pc = "returned"

IsLiteralPattern(r) == \A n \in 1..Len(r) : is_ascii_alphanumeric(r[n])

\* C3: a pattern of letters and digits only matches exactly the string equal
\* to the pattern: every prefix, extension and other string is rejected
C3_LiteralExact ==
  (Returned /\ IsLiteralPattern(raw)) => (result = (chars = raw))

\* a literal pattern of two or more characters has accepted its own string
C3_Witness ==
  Returned /\ IsLiteralPattern(raw) /\ Len(raw) >= 2 /\ chars = raw /\ result

\* a literal/wildcard sequence r matches s position by position
MatchesPositionwise(r, s) ==
  /\ Len(s) = Len(r)
  /\ \A n \in 1..Len(r) : r[n] = "." \/ r[n] = s[n]

\* C10: in a sequence of literals and wildcards, '.' stands for exactly one
\* input character, whatever it is, and the other positions match literally
C10_WildcardAnyOne ==
  (Returned /\ raw \in LitPatterns) => (result = MatchesPositionwise(raw, chars))

\* a wildcard between literals has consumed a character that is no literal of
\* the pattern
C10_Witness ==
  /\ Returned /\ result
  /\ \E n \in 1..Len(raw) : raw[n] = "." /\ chars[n] = OtherChar
  /\ \E n \in 1..Len(raw) : raw[n] # "."

\* s is the concatenation of n strings, each matched by the pattern u compiled
\* on its own
RECURSIVE IsRepetition(_, _, _)
IsRepetition(u, s, n) ==
  IF n = 0 THEN s = <<>>
  ELSE \E k \in 0..Len(s) :
         /\ EngineIsMatch(u, SubSeq(s, 1, k))
         /\ IsRepetition(u, SubSeq(s, k + 1, Len(s)), n - 1)

\* C4: X* matches exactly the concatenations of n >= 0 strings matched by X
C4_ZeroOrMore ==
  Returned =>
    \A u \in QuantUnits :
      raw = u \o <<"*">> =>
        result = (\E n \in 0..Len(chars) : IsRepetition(u, chars, n))

\* X* has accepted two repetitions of a two-character X
C4_Witness ==
  /\ Returned /\ result
  /\ raw = <<"(", "a", "b", ")", "*">>
  /\ chars = <<"a", "b", "a", "b">>

\* C5: X+ matches exactly the concatenations of n >= 1 strings matched by X,
\* which is what X* matches without the empty string
C5_OneOrMore ==
  Returned =>
    \A u \in QuantUnits :
      raw = u \o <<"+">> =>
        /\ result = (\E n \in 1..Len(chars) : IsRepetition(u, chars, n))
        /\ result = (chars # <<>> /\ EngineIsMatch(u \o <<"*">>, chars))

\* X+ has rejected the empty string
C5_Witness ==
  /\ Returned /\ ~result
  /\ \E u \in QuantUnits : raw = u \o <<"+">>
  /\ chars = <<>>

\* C6: X? matches exactly the empty string and the strings matched by X once
C6_ZeroOrOne ==
  Returned =>
    \A u \in QuantUnits :
      raw = u \o <<"?">> =>
        result = (chars = <<>> \/ EngineIsMatch(u, chars))

\* X? has rejected two repetitions of X
C6_Witness ==
  /\ Returned /\ ~result
  /\ raw = <<"a", "?">>
  /\ chars = <<"a", "a">>

\* the tree of the pattern exists: the parse has ended well
Parsed == pc \in {"compile", "ready", "match", "returned"}

\* C7: X{m,n} matches exactly the k-fold repetitions of X with m <= k <= n,
\* and X{m} is Range(m, m) and matches exactly the m-fold repetitions
C7_Range ==
  \A u \in QuantUnits :
    /\ \A mn \in RangeBounds :
         (Returned /\ raw = u \o RangeText(mn[1], mn[2])) =>
           result = (\E k \in mn[1]..mn[2] : IsRepetition(u, chars, k))
    /\ \A m \in 1..MaxRange :
         /\ (Parsed /\ raw = u \o ExactText(m)) => pattern.m = ModRange(m, m)
         /\ (Returned /\ raw = u \o ExactText(m)) => result = IsRepetition(u, chars, m)

\* a{1,2} has accepted two repetitions, having more than the minimum
C7_Witness ==
  /\ Returned /\ result
  /\ raw = <<"a">> \o RangeText(MaxRange - 1, MaxRange)
  /\ Len(chars) = MaxRange

\* C1: the Engine of p1|...|pn accepts s exactly when the Engine of one of the
\* branches accepts s
C1_AlternationIsUnion ==
  Returned =>
    /\ \A p1 \in AltBranches, p2 \in AltBranches :
         raw = Alt2(p1, p2) =>
           result = (EngineIsMatch(p1, chars) \/ EngineIsMatch(p2, chars))
    /\ \A p1 \in AltBranches, p2 \in AltBranches, p3 \in AltBranches :
         raw = Alt3(p1, p2, p3) =>
           result = (\/ EngineIsMatch(p1, chars)
                     \/ EngineIsMatch(p2, chars)
                     \/ EngineIsMatch(p3, chars))

\* s splits into one piece per term, each piece matched by its term compiled
\* on its own
RECURSIVE SplitsInto(_, _)
SplitsInto(terms, s) ==
  IF terms = <<>> THEN s = <<>>
  ELSE \E k \in 0..Len(s) :
         /\ EngineIsMatch(Head(terms), SubSeq(s, 1, k))
         /\ SplitsInto(Tail(terms), SubSeq(s, k + 1, Len(s)))

\* C2: the Engine of t1 t2 ... tn accepts s exactly when s splits into
\* s1 ... sn with every si accepted by the Engine of ti
C2_SequenceIsConcatenation ==
  Returned =>
    /\ \A t1 \in SeqTerms, t2 \in SeqTerms :
         raw = t1 \o t2 => result = SplitsInto(<<t1, t2>>, chars)
    /\ \A t1 \in SeqTerms3, t2 \in SeqTerms3, t3 \in SeqTerms3 :
         raw = t1 \o t2 \o t3 => result = SplitsInto(<<t1, t2, t3>>, chars)

\* C8: a plain class consumes exactly one character, and only a listed one
C8_ClassMembersOnly ==
  Returned =>
    \A ms \in ClassMembers :
      /\ raw = PlainClass(ms) =>
           result = (Len(chars) = 1 /\ chars[1] \in Range(ms))
      /\ raw = Between(PlainClass(ms)) =>
           result = (/\ Len(chars) = 3
                     /\ chars[1] = "a" /\ chars[3] = "a"
                     /\ chars[2] \in Range(ms))

\* C9: a negated class consumes exactly one character, and only an unlisted one
C9_NegatedClass ==
  Returned =>
    \A ms \in ClassMembers :
      /\ raw = NegatedClass(ms) =>
           result = (Len(chars) = 1 /\ chars[1] \notin Range(ms))
      /\ raw = Between(NegatedClass(ms)) =>
           result = (/\ Len(chars) = 3
                     /\ chars[1] = "a" /\ chars[3] = "a"
                     /\ chars[2] \notin Range(ms))

\* a negated class of two characters between literals has consumed an unlisted
\* character
C9_Witness ==
  /\ Returned /\ result
  /\ \E ms \in ClassMembers : Len(ms) = 2 /\ ms[1] # ms[2] /\ raw = Between(NegatedClass(ms))
  /\ chars = <<"a", OtherChar, "a">>


\* the pattern without its parentheses
Unparenthesised(r) == SelectSeq(r, LAMBDA c : c \notin {"(", ")"})

\* C11: a pattern of literals with one contiguous, non-empty part wrapped in
\* parentheses (no quantifier after the group) is accepted by Engine::new and
\* is_match answers on every input what the Engine of the pattern without the
\* parentheses answers
C11_GroupingNeutral ==
  /\ pc # "panic"
  /\ Returned => result = EngineIsMatch(Unparenthesised(raw), chars)

\* the group in the middle has matched: a(b)a on aba
C11_Witness ==
  /\ Returned /\ result
  /\ Len(raw) = 5 /\ raw[2] = "(" /\ raw[4] = ")"
  /\ chars = Unparenthesised(raw)


\* C12: the empty pattern parses to an empty And with modifier One, compiles
\* to a table without edges whose finish state is the start state 0, and
\* is_match is true on the empty input and false on every other input
C12_EmptyPattern ==
  raw = <<>> =>
    /\ pc # "panic"
    /\ Parsed => pattern = PAnd(<<>>, ModOne)
    /\ Constructed =>
         /\ DOMAIN transitions.base = {} /\ DOMAIN transitions.negated = {}
         /\ finish_state = 0
    /\ Returned => result = (chars = <<>>)

\* the Engine of the empty pattern has refused a non-empty input
C12_Witness == raw = <<>> /\ Returned /\ ~result /\ Len(chars) > 0


\* C13: every call of is_match on a constructed Engine ends: from every state
\* inside the work-stack loop the call eventually returns its boolean (or its
\* work stack has outgrown what the model follows)
C13_MatcherTotal == (pc = "match") ~> (pc \in {"returned", "cut"})


\* C14: is_match leaves the Engine as Engine::new built it, whatever calls
\* were made and however the loop iterations of two callers interleave, and
\* each caller gets the boolean the call returns when it runs alone
C14_EngineUnchanged ==
  Constructed =>
    LET e == EngineNew(raw)
    IN /\ transitions = e.transitions
       /\ finish_state = e.finish_state
       /\ Returned => result = is_match_loop(e.transitions, e.finish_state, chars, <<<<0, 0>>>>)
       /\ pc2 = "returned" =>
            result2 = is_match_loop(e.transitions, e.finish_state, chars2, <<<<0, 0>>>>)

\* both callers are inside the loop at once, on different inputs, each past
\* its first iteration
C14_Witness ==
  /\ pc = "match" /\ pc2 = "match"
  /\ chars # chars2
  /\ Len(work) > 0 /\ work # <<<<0, 0>>>>
  /\ Len(work2) > 0 /\ work2 # <<<<0, 0>>>>


\* Parser::parse has failed or is still reading: no tree, no Engine
NoEngine == pc \in {"parse", "panic"}

\* the positions of r inside a character class, brackets included; a class
\* runs from '[' (and '^') to the first ']' after it, a range from '{' to the
\* first '}' after it
RECURSIVE ClassPositions(_, _)
ClassPositions(r, i) ==
  IF i > Len(r) THEN {}
  ELSE IF r[i] = "["
  THEN LET first == IF i + 1 <= Len(r) /\ r[i + 1] = "^" THEN i + 2 ELSE i + 1
           close == FindFrom(r, first, {"]"})
       IN IF close = 0 THEN i..Len(r) ELSE (i..close) \cup ClassPositions(r, close + 1)
  ELSE IF r[i] = "{"
  THEN LET close == FindFrom(r, i + 1, {"}"})
       IN IF close = 0 THEN {} ELSE ClassPositions(r, close + 1)
  ELSE ClassPositions(r, i + 1)

\* the parentheses of r at the positions in at, in order
RECURSIVE ParensAt(_, _, _)
ParensAt(r, at, i) ==
  IF i > Len(r) THEN <<>>
  ELSE IF i \in at /\ r[i] \in {"(", ")"} THEN <<r[i]>> \o ParensAt(r, at, i + 1)
  ELSE ParensAt(r, at, i + 1)

\* some ')' of ps has no '(' before it to match, or some '(' is left open
RECURSIVE Unbalanced(_, _)
Unbalanced(ps, depth) ==
  IF ps = <<>> THEN depth # 0
  ELSE IF Head(ps) = "(" THEN Unbalanced(Tail(ps), depth + 1)
  ELSE depth = 0 \/ Unbalanced(Tail(ps), depth - 1)

\* C15 as stated: a pattern in which some '(' has no matching ')' or some ')'
\* has no matching '(' is rejected by Parser::parse, wherever the parenthesis
\* stands
C15_UnbalancedRejected ==
  Unbalanced(ParensAt(raw, 1..Len(raw), 1), 0) => NoEngine

\* C15: a pattern in which, outside character classes, some '(' has no
\* matching ')' or some ')' has no matching '(' is rejected by Parser::parse:
\* no tree is returned and no Engine is built
C15_GroupingUnbalancedRejected ==
  Unbalanced(ParensAt(raw, (1..Len(raw)) \ ClassPositions(raw, 1), 1), 0) => NoEngine

\* a '(' left open is found at the end of the input, after every character
\* was read: the parse panics there
C15_Witness ==
  /\ pc = "panic" /\ pos = Len(raw)
  /\ Len(raw) >= 3 /\ raw[2] = "(" /\ ")" \notin Range(raw) /\ "[" \notin Range(raw)
  /\ raw[Len(raw)] = "a"

\* C16: a pattern in which '?', '+', '*' or a '{...}' range stands at the
\* start of the pattern, directly after '(' or directly after '|' (all
\* outside character classes) is rejected by Parser::parse
C16_QuantifierNeedsTerm ==
  LET out == (1..Len(raw)) \ ClassPositions(raw, 1)
  IN (\E i \in out :
        /\ raw[i] \in {"?", "+", "*", "{"}
        /\ i = 1 \/ ((i - 1) \in out /\ raw[i - 1] \in {"(", "|"}))
     => NoEngine


\* the characters the parser's contract lists
AcceptedChars ==
  Letters \cup Digits \cup {".", "|", "(", ")", "[", "]", "^", "?", "+", "*", "{", "}", ","}

\* C17: a pattern that holds a character outside the accepted set, at any
\* position, a position inside a class included, is rejected by Parser::parse
C17_ForeignCharRejected ==
  (\E i \in 1..Len(raw) : raw[i] \notin AcceptedChars) => NoEngine


\* a string of decimal digits, and one with an optional '+' before it
DecimalText(b) == b # <<>> /\ \A i \in 1..Len(b) : b[i] \in Digits
SignedDecimalText(b) == DecimalText(b) \/ (b # <<>> /\ Head(b) = "+" /\ DecimalText(Tail(b)))

\* the bounds written between '{' and '}': the text before the first ','
\* and, when there is a ',', the text after it
BoundTexts(body) ==
  LET comma == FindFrom(body, 1, {","})
  IN IF comma = 0 THEN {body}
     ELSE {SubSeq(body, 1, comma - 1), SubSeq(body, comma + 1, Len(body))}

\* reading r from position i, outside classes: a '[' without a ']' after it,
\* a '{' without a '}' after it, or a range with a bound that is empty or
\* not a number; signed tells whether "+1" counts as a number
RECURSIVE Malformed(_, _, _)
Malformed(r, i, signed) ==
  IF i > Len(r) THEN FALSE
  ELSE IF r[i] = "["
  THEN LET first == IF i + 1 <= Len(r) /\ r[i + 1] = "^" THEN i + 2 ELSE i + 1
           close == FindFrom(r, first, {"]"})
       IN close = 0 \/ Malformed(r, close + 1, signed)
  ELSE IF r[i] = "{"
  THEN LET close == FindFrom(r, i + 1, {"}"})
       IN \/ close = 0
          \/ \E b \in BoundTexts(SubSeq(r, i + 1, close - 1)) :
               IF signed THEN ~SignedDecimalText(b) ELSE ~DecimalText(b)
          \/ Malformed(r, close + 1, signed)
  ELSE Malformed(r, i + 1, signed)

\* C18 as stated: a pattern with a '[' that no ']' follows, a '{' that no
\* '}' follows, or a range bound that is empty or not a string of decimal
\* digits is rejected by Parser::parse
C18_MalformedRejected ==
  (\/ \E i \in 1..Len(raw) : raw[i] = "[" /\ FindFrom(raw, i + 1, {"]"}) = 0
   \/ \E i \in 1..Len(raw) : raw[i] = "{" /\ FindFrom(raw, i + 1, {"}"}) = 0
   \/ Malformed(raw, 1, FALSE))
  => NoEngine

\* C18: a pattern with, outside character classes, a '[' without closing
\* ']', a '{' without closing '}', or a range bound that is empty or not a
\* decimal number (one leading '+' allowed) is rejected by Parser::parse: no
\* partial tree and no Engine
C18_MalformedOutsideClassRejected == Malformed(raw, 1, TRUE) => NoEngine

\* the range after the term a has an empty lower bound: the parse panics in
\* the '{' branch
C18_Witness ==
  /\ pc = "panic" /\ pos = 1
  /\ Len(raw) >= 5 /\ raw[1] = "a" /\ raw[2] = "{" /\ raw[3] = "," /\ raw[5] = "}"


\* every Range(min, max) in the tree p has min <= max and max >= 1
RECURSIVE RangesWellFormed(_)
RangesWellFormed(p) ==
  /\ p.m.k = "Range" => (p.m.min <= p.m.max /\ p.m.max >= 1)
  /\ \A n \in 1..Len(p.list) : RangesWellFormed(p.list[n])

\* C19: every Range(min, max) modifier in a tree that Parser::parse returns
\* has min <= max and max >= 1
C19_RangeInvariant == Parsed => RangesWellFormed(pattern)

\* C20: for a pattern that Parser::parse accepts, to_transition(0, 1) returns
\* an automaton: Engine::new does not fail after the parse
C20_CompileNeverFails == parse(raw).ok => pc # "panic"


\* the numbers of repetitions the quantifier text q allows, up to n
Repetitions(q, n) ==
  CASE q = <<"?">> -> {0, 1} \cap (0..n)
    [] q = <<"+">> -> 1..n
    [] q = <<"*">> -> 0..n
    [] OTHER -> {2} \cap (0..n)

\* n is a sum of k numbers, each one allowed by q
RECURSIVE SumOfRepetitions(_, _, _)
SumOfRepetitions(q, k, n) ==
  IF k = 0 THEN n = 0
  ELSE \E m \in Repetitions(q, n) : SumOfRepetitions(q, k - 1, n - m)

\* C21: (a q1) q2 accepts exactly the strings made of k strings of the
\* language of a q1, for a number k that q2 allows: the inner quantifier stays
\* in force and the outer one applies to the group
C21_GroupQuantifier ==
  Returned =>
    \A q1 \in InnerQuantifiers, q2 \in InnerQuantifiers :
      raw = <<"(", "a">> \o q1 \o <<")">> \o q2 =>
        (result <=>
           /\ \A i \in 1..Len(chars) : chars[i] = "a"
           /\ \E k \in Repetitions(q2, Len(chars) + 2) : SumOfRepetitions(q1, k, Len(chars)))


\* the position of the ')' that closes the '(' depth levels up, from position i on
RECURSIVE CloseOf(_, _, _)
CloseOf(r, i, depth) ==
  IF i > Len(r) THEN 0
  ELSE IF r[i] = "(" THEN CloseOf(r, i + 1, depth + 1)
  ELSE IF r[i] = ")" THEN (IF depth = 1 THEN i ELSE CloseOf(r, i + 1, depth - 1))
  ELSE CloseOf(r, i + 1, depth)

\* the parenthesis depth of position i of r
DepthAt(r, i) ==
  Cardinality({j \in 1..(i - 1) : r[j] = "("}) - Cardinality({j \in 1..(i - 1) : r[j] = ")"})

\* r cut at the positions in bars
RECURSIVE CutAt(_, _)
CutAt(r, bars) ==
  IF bars = {} THEN <<r>>
  ELSE LET b == CHOOSE x \in bars : \A y \in bars : x <= y
       IN <<SubSeq(r, 1, b - 1)>> \o CutAt(SubSeq(r, b + 1, Len(r)), {x - b : x \in bars \ {b}})

\* the maximal concatenations of r between the '|' at depth 0
Branches(r) == CutAt(r, {i \in 1..Len(r) : r[i] = "|" /\ DepthAt(r, i) = 0})

\* the terms of a concatenation: literals and parenthesised groups
RECURSIVE Terms(_)
Terms(r) ==
  IF r = <<>> THEN <<>>
  ELSE IF r[1] = "("
  THEN LET c == CloseOf(r, 2, 1)
       IN <<SubSeq(r, 1, c)>> \o Terms(SubSeq(r, c + 1, Len(r)))
  ELSE <<<<r[1]>>>> \o Terms(Tail(r))

\* the tree the precedence rules give a well-formed pattern without
\* quantifiers: an Alternation of its branches when a '|' stands at depth 0,
\* each branch the Sequence of its terms (the term itself when it is alone),
\* a group the tree of what its parentheses hold
RECURSIVE ClaimedTree(_)
RECURSIVE ClaimedSequence(_)
RECURSIVE ClaimedTerm(_)
ClaimedTree(r) ==
  LET bs == Branches(r)
  IN IF Len(bs) = 1 THEN ClaimedSequence(r)
     ELSE POr([n \in 1..Len(bs) |-> ClaimedSequence(bs[n])], ModOne)

ClaimedSequence(r) ==
  LET ts == Terms(r)
  IN IF Len(ts) = 1 THEN ClaimedTerm(ts[1])
     ELSE PAnd([n \in 1..Len(ts) |-> ClaimedTerm(ts[n])], ModOne)

ClaimedTerm(t) ==
  IF t[1] = "(" THEN ClaimedTree(SubSeq(t, 2, Len(t) - 1)) ELSE PChar(t[1], ModOne)

\* C22: the tree Parser::parse returns for a well-formed pattern is the
\* Alternation of the Sequences between the '|' of the same parenthesis depth,
\* in left-to-right order, with the groups nested as the parentheses are
C22_PrecedenceAndNesting == Parsed => pattern = ClaimedTree(raw)

\* ab|(a|b)|ba-like: an Alternation of three branches, the first a Sequence
\* written without parentheses, the second a group
C22_Witness ==
  /\ Parsed
  /\ pattern.t = "Or" /\ Len(pattern.list) = 3
  /\ pattern.list[1].t = "And" /\ raw[1] # "("
  /\ pattern.list[2].t = "Or"


\* the length of the term r starts with: a group up to its ')', a class up to
\* its ']', or one literal
UnitLen(r) ==
  IF r[1] = "(" THEN CloseOf(r, 2, 1)
  ELSE IF r[1] = "[" THEN FindFrom(r, 2, {"]"})
  ELSE 1

\* the length of the quantifier suffix r starts with, 0 when it starts with none
SuffixLen(r) ==
  IF r = <<>> THEN 0
  ELSE IF r[1] \in {"?", "+", "*"} THEN 1
  ELSE IF r[1] = "{" THEN FindFrom(r, 2, {"}"})
  ELSE 0

\* the terms of a concatenation with their suffixes
RECURSIVE SuffixedTermsOf(_)
SuffixedTermsOf(r) ==
  IF r = <<>> THEN <<>>
  ELSE LET u == UnitLen(r)
           q == SuffixLen(SubSeq(r, u + 1, Len(r)))
       IN <<[unit |-> SubSeq(r, 1, u), suffix |-> SubSeq(r, u + 1, u + q)]>>
          \o SuffixedTermsOf(SubSeq(r, u + q + 1, Len(r)))

\* the quantifier a suffix text stands for
SuffixMod(q) ==
  CASE q = <<>> -> ModOne
    [] q = <<"?">> -> ModZeroOrOne
    [] q = <<"+">> -> ModOneOrMore
    [] q = <<"*">> -> ModAny
    [] OTHER -> ModRange(2, 2)

\* the tree of a term text, its quantifier Exactly1
UnitTree(u) ==
  IF u[1] = "(" THEN ClaimedTree(SubSeq(u, 2, Len(u) - 1))
  ELSE IF u[1] = "[" THEN PCharGroup(SubSeq(u, 2, Len(u) - 1), ModOne, FALSE)
  ELSE PChar(u[1], ModOne)

\* the tree in which every term carries its own suffix and nothing else does
SuffixedTree(r) ==
  LET ts == SuffixedTermsOf(r)
      child(n) == [UnitTree(ts[n].unit) EXCEPT !.m = SuffixMod(ts[n].suffix)]
  IN IF Len(ts) = 1 THEN child(1)
     ELSE PAnd([n \in 1..Len(ts) |-> child(n)], ModOne)

\* the parser is about to read a quantifier suffix and does not fail on it
ReadsSuffix == pc = "parse" /\ pos < Len(raw) /\ raw[pos + 1] \in {"?", "+", "*", "{"} /\ pc' = "parse"

\* C23: reading a quantifier suffix changes the quantifier of the value-stack
\* top, which is the tree of the term written immediately before the suffix,
\* and leaves the rest of the value stack and the operator stack as they
\* were; in the returned tree every term of a concatenation carries exactly
\* its own suffix and the enclosing Sequence keeps Exactly1
C23_SuffixFrame ==
  /\ [](Parsed => pattern = SuffixedTree(raw))
  /\ [][ReadsSuffix =>
          LET before == SuffixedTermsOf(SubSeq(raw, 1, pos))
              q == SubSeq(raw, pos + 1, pos + SuffixLen(SubSeq(raw, pos + 1, Len(raw))))
          IN /\ stack # <<>>
             /\ [stack[Len(stack)] EXCEPT !.m = ModOne] = UnitTree(before[Len(before)].unit)
             /\ stack' = [stack EXCEPT ![Len(stack)] = [@ EXCEPT !.m = SuffixMod(q)]]
             /\ ops' = ops]_vars

\* a(ab)+[ab]?-like: three terms, the first without suffix, the second a
\* group with a suffix, the third with another suffix
C23_Witness ==
  /\ Parsed
  /\ pattern.t = "And" /\ Len(pattern.list) = 3
  /\ pattern.list[1].m = ModOne
  /\ pattern.list[2].t = "And" /\ pattern.list[2].m = ModOneOrMore
  /\ pattern.list[3].t = "CharGroup" /\ pattern.list[3].m = ModZeroOrOne


\* the edges of a table: source, label, target
Edges(t) ==
  UNION {{<<k[1], k[2], t.base[k][n]>> : n \in 1..Len(t.base[k])} : k \in DOMAIN t.base}
  \cup UNION {UNION {{<<s, <<"not", nc>>, t.negated[s][nc][n]>> : n \in 1..Len(t.negated[s][nc])} :
                     nc \in DOMAIN t.negated[s]} : s \in DOMAIN t.negated}

\* the states the edges of a table touch
EdgeStates(t) == {e[1] : e \in Edges(t)} \cup {e[3] : e \in Edges(t)}

\* the calls to_transition(start, next) a Sequence or an Alternation makes for
\* its children list[at..]: a Sequence starts a child at the previous child's
\* end, an Alternation starts every child at start; both number a child's new
\* states from the previous child's end + 1
RECURSIVE ChildCalls(_, _, _, _, _)
ChildCalls(p, at, start, prev_end, next) ==
  IF at > Len(p.list) THEN <<>>
  ELSE LET from == IF p.t = "And" THEN prev_end ELSE start
           r == to_transition(p.list[at], from, next)
       IN <<[p |-> p.list[at], start |-> from, next |-> next, end |-> r.end]>>
          \o ChildCalls(p, at + 1, start, r.end, r.end + 1)

\* the call p.to_transition(start, next) and the calls below it keep to their
\* own states
RECURSIVE CallsWellNumbered(_, _, _)
CallsWellNumbered(p, start, next) ==
  LET r == to_transition(p, start, next)
      kids == ChildCalls(p, 1, start, start, next)
  IN /\ EdgeStates(r.trans) \subseteq {start} \cup (next..r.end)
     /\ \A s \in EdgeStates(r.trans) \cup {start} : s <= r.end
     /\ \A k \in 1..Len(kids) :
          /\ Edges(to_transition(kids[k].p, kids[k].start, kids[k].next).trans)
               \subseteq Edges(r.trans)
          /\ next <= kids[k].next /\ kids[k].end <= r.end
          /\ \A j \in 1..(k - 1) :
               (kids[j].next..kids[j].end) \cap (kids[k].next..kids[k].end) = {}
          /\ CallsWellNumbered(kids[k].p, kids[k].start, kids[k].next)

\* C24: in the automaton of an accepted pattern every call
\* to_transition(start, next) makes edges only between start and the states
\* next..end, its end is the largest state it used, sibling sub-patterns use
\* disjoint ranges of new states, and every edge of the Engine's table has its
\* source and its target in 0..finish_state
C24_StatesNeverReused ==
  Constructed =>
    /\ CallsWellNumbered(pattern, 0, 1)
    /\ EdgeStates(transitions) \subseteq 0..finish_state

\* an Alternation of three branches, one of them a group with a quantifier,
\* has been lowered
C24_Witness ==
  /\ Constructed
  /\ pattern.t = "Or" /\ Len(pattern.list) = 3
  /\ \E n \in 1..3 : pattern.list[n].t = "And" /\ pattern.list[n].m = ModAny
  /\ finish_state >= 6


\* how many times x occurs in the list s
Occurrences(s, x) == Cardinality({n \in 1..Len(s) : s[n] = x})

\* C25: the table of an Alternation (quantifier One) at the root is made of
\* its children's tables, every child lowered from state 0 and numbering its
\* new states from the previous child's end + 1, plus exactly one epsilon edge
\* from each child's end to the join state, the last child's end + 1, which is
\* the finish state
C25_AlternationLowering ==
  (pc = "ready" /\ pattern.t = "Or" /\ pattern.m = ModOne) =>
    LET kids == ChildCalls(pattern, 1, 0, 0, 1)
        join == kids[Len(kids)].end + 1
        lowered(k) == to_transition(kids[k].p, 0, kids[k].next).trans
    IN /\ \A k \in 1..Len(kids) :
            /\ kids[k].start = 0
            /\ kids[k].next = IF k = 1 THEN 1 ELSE kids[k - 1].end + 1
            /\ <<kids[k].end, None>> \in DOMAIN transitions.base
            /\ Occurrences(transitions.base[<<kids[k].end, None>>], join) = 1
       /\ Edges(transitions) =
            UNION {Edges(lowered(k)) : k \in 1..Len(kids)}
            \cup {<<kids[k].end, None, join>> : k \in 1..Len(kids)}
       /\ finish_state = join

\* a|ab|b-like: three branches with ends 1, 3, 4 and the join state 5
C25_Witness ==
  /\ pc = "ready" /\ pattern.t = "Or" /\ Len(pattern.list) = 3
  /\ pattern.list[2].t = "And" /\ Len(pattern.list[2].list) = 2
  /\ \A k \in 1..3 : pattern.list[k].m = ModOne
  /\ {e \in Edges(transitions) : e[2] = None} = {<<1, None, 5>>, <<3, None, 5>>, <<4, None, 5>>}
  /\ finish_state = 5


\* the epsilon edges the quantifier k is said to add to a lowering from start
\* with end end, as key and target
WrapEdges(k, start, end) ==
  CASE k = "One" -> {}
    [] k = "ZeroOrOne" -> {<<<<start, None>>, end>>}
    [] k = "OneOrMore" -> {<<<<end, None>>, start>>}
    [] k = "Any" -> {<<<<end, None>>, start>>, <<<<start, None>>, end + 1>>}

\* the table wrapped and its end are the table unwrapped and its end with
\* the edges of the quantifier k appended and nothing else
WrappedExactly(k, start, unwrapped, unwrapped_end, wrapped, wrapped_end) ==
  LET added == WrapEdges(k, start, unwrapped_end)
      old(key) == IF key \in DOMAIN unwrapped.base THEN unwrapped.base[key] ELSE <<>>
  IN /\ wrapped.negated = unwrapped.negated
     /\ DOMAIN wrapped.base = DOMAIN unwrapped.base \cup {a[1] : a \in added}
     /\ \A key \in DOMAIN wrapped.base :
          \/ key \notin {a[1] : a \in added} /\ wrapped.base[key] = old(key)
          \/ \E a \in added : a[1] = key /\ wrapped.base[key] = Append(old(key), a[2])
     /\ wrapped_end = IF k = "Any" THEN unwrapped_end + 1 ELSE unwrapped_end

\* the quantifier wrapping of the call p.to_transition(start, next) and of the
\* calls below it
RECURSIVE WrappingBelow(_, _, _)
WrappingBelow(p, start, next) ==
  LET u == to_transition_without_mod(p, start, next)
      r == to_transition(p, start, next)
      kids == ChildCalls(p, 1, start, start, next)
  IN /\ p.m.k # "Range" => WrappedExactly(p.m.k, start, u.trans, u.end, r.trans, r.end)
     /\ \A n \in 1..Len(kids) : WrappingBelow(kids[n].p, kids[n].start, kids[n].next)

\* C26: the Engine's table is the lowering of the root without its quantifier
\* plus exactly the quantifier's epsilon edges: none for One, start -> end for
\* ZeroOrOne, end -> start for OneOrMore (finish state unchanged for the
\* three), end -> start and start -> end + 1 for Any with the finish state
\* one higher; the same at every node below the root
C26_QuantifierWrapping ==
  pc = "ready" =>
    LET u == to_transition_without_mod(pattern, 0, 1)
    IN /\ pattern.m.k # "Range" =>
            WrappedExactly(pattern.m.k, 0, u.trans, u.end, transitions, finish_state)
       /\ WrappingBelow(pattern, 0, 1)

\* (ab)*: the loop-back edge 2 -> 0, the skip edge 0 -> 3 and finish state 3
C26_Witness ==
  /\ pc = "ready"
  /\ pattern.t = "And" /\ pattern.m = ModAny /\ Len(pattern.list) = 2
  /\ {e \in Edges(transitions) : e[2] = None} = {<<2, None, 0>>, <<0, None, 3>>}
  /\ finish_state = 3


\* an edge with this label can read the character c
Reads(label, c) ==
  /\ label # None
  /\ IF Len(label) = 2 THEN ~Contains(label[2], c)
     ELSE label = Some(c) \/ label = Some(".")

\* the pairs of state and offset one edge away from the pairs in cs
OneEdgeFrom(t, s, cs) ==
  UNION {{<<e[3], cf[2]>> : e \in {x \in Edges(t) : x[1] = cf[1] /\ x[2] = None}}
         \cup {<<e[3], cf[2] + 1>> :
                 e \in {x \in Edges(t) : x[1] = cf[1] /\ cf[2] < Len(s) /\
                                         Reads(x[2], s[cf[2] + 1])}} :
         cf \in cs}

\* the pairs of state and offset some path from the pairs in cs ends at
RECURSIVE ReachableFrom(_, _, _)
ReachableFrom(t, s, cs) ==
  LET more == cs \cup OneEdgeFrom(t, s, cs)
  IN IF more = cs THEN cs ELSE ReachableFrom(t, s, more)

\* a path from state 0 to finish reads exactly the characters of s
PathExists(t, finish, s) == <<finish, Len(s)>> \in ReachableFrom(t, s, {<<0, 0>>})

\* C27: is_match returns true exactly when the automaton has a path from
\* state 0 to the finish state whose consuming edges (exact character,
\* wildcard, negated set without the character) read the characters of the
\* input in order, epsilon edges in between, the whole input consumed
C27_DecidesPathExistence ==
  Returned => (result <=> PathExists(transitions, finish_state, chars))

\* a path through a negated-class edge and a loop-back epsilon edge was found
C27_Witness ==
  /\ Returned /\ result
  /\ DOMAIN transitions.negated # {}
  /\ pattern.m = ModOneOrMore
  /\ Len(chars) = 3


\* the states some path of one or more epsilon edges from a state of S ends at
RECURSIVE EpsilonReach(_, _)
EpsilonReach(t, S) ==
  LET more == S \cup {e[3] : e \in {x \in Edges(t) : x[2] = None /\ x[1] \in S}}
  IN IF more = S THEN S ELSE EpsilonReach(t, more)

\* some cycle of the table is made of epsilon edges only
EpsilonCycle(t) ==
  \E e \in Edges(t) : e[2] = None /\ e[1] \in EpsilonReach(t, {e[3]})

\* C28: whenever the compiled automaton has no cycle made only of epsilon
\* edges, a call of is_match that has entered its loop returns its boolean,
\* whatever the input
C28_TerminatesWithoutEpsilonCycle ==
  (pc = "match" /\ ~EpsilonCycle(transitions)) ~> Returned

\* a call has returned on an automaton that loops back through consuming
\* edges only, after the input was read through the loop
C28_Witness ==
  /\ Returned
  /\ ~EpsilonCycle(transitions)
  /\ raw = <<"(", "a", "*", "b", ")", "*">>
  /\ chars = <<"a", "b", "a", "b">>


\* C29: the order in which the successors of a popped pair are pushed does
\* not change the outcome: when one call of is_match has returned a boolean
\* and a second call on the same Engine and the same input is under way, the
\* second call returns the same boolean (or its work stack outgrows what the
\* model follows)
C29_OrderInsignificant ==
  /\ (Returned /\ result /\ pc2 = "match" /\ chars2 = chars)
       ~> (pc2 = "cut" \/ (pc2 = "returned" /\ result2))
  /\ (Returned /\ ~result /\ pc2 = "match" /\ chars2 = chars)
       ~> (pc2 = "cut" \/ (pc2 = "returned" /\ ~result2))


\* C30: PATTERN STRING mode of the command line reports what the core
\* reports: when the core's Engine::new(PATTERN) fails the command line does
\* not get past its construction either, and the other way round, and when
\* both is_match calls on STRING have returned they returned the same boolean
C30_CliIsThinWrapper ==
  /\ ~(pc = "panic" /\ cli.pc \in {"ready", "match", "returned", "cut"})
  /\ ~(cli.pc = "panic" /\ Constructed)
  /\ (Returned /\ cli.pc = "returned" /\ chars = cli.args[2]) => cli.result = result

====
